---- MODULE Spec2Model ----
(***************************************************************************)
(* A model of two function adaptors of the Fit library:                    *)
(*   compress  (include/fit/compress.hpp): a variadic left fold            *)
(*   decorate  (include/fit/decorate.hpp): a two-stage decorator capture   *)
(* together with the compile-time (SFINAE) result-type computation that    *)
(* decides whether a call of either adaptor is well-formed.                *)
(*                                                                         *)
(* A run-time value is a record [t |-> type name, v |-> integer]; a        *)
(* function object is a value whose type is its class and whose v is 0     *)
(* (the function objects are stateless).  A type expression, as handed to  *)
(* result_of, is [t |-> type name, c |-> const-qualified lvalue or not].   *)
(***************************************************************************)
EXTENDS Integers, Sequences, FiniteSets, TLC

\* Longest trailing argument list of one call of a compress adaptor.
MaxArgs == 4

\* The integers of the documented example, compress(max_f())(2, 3, 4, 5).
ExampleLo == 2
ExampleHi == 5

NoType == "none"

\* id_<T>: the type itself, as deduced from a forwarded call argument.
id_(t) == [t |-> t, c |-> FALSE]

\* const T&: what decorator_invoke hands its stored members on as.
const_ref(t) == [t |-> t, c |-> TRUE]

TypesOf(vs) == [i \in 1..Len(vs) |-> id_(vs[i].t)]

TypeNames(vs) == [i \in 1..Len(vs) |-> vs[i].t]

Rest(s, n) == SubSeq(s, n, Len(s))

(***************************************************************************)
(* The user-supplied function objects the adaptors are instantiated with.  *)
(* max_f and sum_f are the ones of the documented examples; the others     *)
(* exercise what the examples do not: an operation that is neither         *)
(* commutative nor associative, one whose result type differs from its     *)
(* state type, and two that are invocable for some operand types only.     *)
(*   max_f     template<T,U> T    operator()(T x, U y) const  x > y ? x : y*)
(*   sum_f     template<T,U> T    operator()(T x, U y) const  x + y        *)
(*   minus_f   template<T,U> T    operator()(T x, U y) const  x - y        *)
(*   widen_f   template<T,U> long operator()(T x, U y) const  2*x + y      *)
(*   same_f    template<T>   T    operator()(T x, T y) const  2*x + y      *)
(*   first_f   template<U>   long operator()(int x, U y) const 2*x + y,    *)
(*             constrained to an int first operand (no conversion)         *)
(***************************************************************************)
BinaryOps == {"max_f", "sum_f", "minus_f", "widen_f", "same_f", "first_f"}

Fn(name) == [t |-> name, v |-> 0]

\* The result type of the binary function object F on operand types (S, T).
BinaryResult(F, S, T) ==
    CASE F \in {"max_f", "sum_f", "minus_f"} -> S.t
      [] F = "widen_f" -> "long"
      [] F = "same_f" -> IF S.t = T.t THEN S.t ELSE NoType
      [] F = "first_f" -> IF S.t = "int" THEN "long" ELSE NoType
      [] OTHER -> NoType

\* The value the binary function object F computes.
BinaryValue(F, x, y) ==
    CASE F = "max_f" -> IF x > y THEN x ELSE y
      [] F = "sum_f" -> x + y
      [] F = "minus_f" -> x - y
      [] OTHER -> 2 * x + y

\* A unary function object, a second target for a decorator:
\*   neg_f     template<T> T operator()(T x) const  -x
Functions == BinaryOps \cup {"neg_f"}

\* result_of<const F&, Ts...> for the plain function objects: the result type
\* of calling F with operands of the types Ts, NoType when the call is
\* ill-formed.
FunctionResult(F, Ts) ==
    CASE F \in BinaryOps /\ Len(Ts) = 2 -> BinaryResult(F, Ts[1], Ts[2])
      [] F = "neg_f" /\ Len(Ts) = 1 -> Ts[1].t
      [] OTHER -> NoType

\* The value a well-formed call of the function object f on xs returns.
FunctionCall(f, xs) ==
    [t |-> FunctionResult(f.t, TypesOf(xs)),
     v |-> CASE f.t = "neg_f" /\ Len(xs) = 1 -> 0 - xs[1].v
             [] f.t \in BinaryOps /\ Len(xs) = 2 ->
                    BinaryValue(f.t, xs[1].v, xs[2].v)
             [] OTHER -> 0]

\* The record of one invocation: the callee, its arguments in order, its result.
Invocation(f, xs, r) == [fn |-> f, args |-> xs, ret |-> r]

(***************************************************************************)
(* compress.hpp: v_fold                                                    *)
(***************************************************************************)

\* A fold step that hands the operation the argument first and the state second.
fold_step_swapped(f, state, x) == FunctionCall(f, <<x, state>>)

\* The operation call of the recursive overload: f(state, x).
fold_step(f, state, x) == FunctionCall(f, <<state, x>>)

\* A base case that returns a value-initialised State instead of the state.
fold_base_default(f, state) == [t |-> state.t, v |-> 0]

\* The base-case overload: the state, returned as it is.
fold_base(f, state) == state

\* A fold that consumes the arguments from the right end.
RECURSIVE v_fold_reversed(_, _)
v_fold_reversed(f, as) ==
    IF Len(as) = 1
    THEN [value |-> as[1], calls |-> <<>>]
    ELSE LET x == as[Len(as)]
             r == FunctionCall(f, <<as[1], x>>)
             rest == v_fold_reversed(f, <<r>> \o SubSeq(as, 2, Len(as) - 1))
         IN  [value |-> rest.value,
              calls |-> <<Invocation(f, <<as[1], x>>, r)>> \o rest.calls]

\* v_fold()(f, as...): the value returned and the invocations of f made, in
\* the order made.  as holds the state followed by the arguments left; the
\* call is only made when v_fold_result says it is well-formed.
RECURSIVE v_fold(_, _)
v_fold(f, as) ==
    IF Len(as) = 1
    THEN [value |-> fold_base(f, as[1]), calls |-> <<>>]
    ELSE LET r == fold_step(f, as[1], as[2])
             rest == v_fold(f, <<r>> \o Rest(as, 3))
         IN  [value |-> rest.value,
              calls |-> <<Invocation(f, <<as[1], as[2]>>, r)>> \o rest.calls]

\* result_of<const F&, id_<State>, id_<T>>: the probe of one fold step, on the
\* names of the state's and the argument's types.
step_result(F, S, T) == FunctionResult(F, <<id_(S), id_(T)>>)

\* A result type that probes every step with the initial state type, as if the
\* recursive overload handed id_<State> on instead of the step's result type.
RECURSIVE v_fold_result_uniform(_, _)
v_fold_result_uniform(F, Ts) ==
    IF Len(Ts) = 0 THEN NoType
    ELSE IF Len(Ts) = 1 THEN Ts[1]
    ELSE IF FunctionResult(F, <<id_(Ts[1]), id_(Ts[2])>>) = NoType THEN NoType
    ELSE v_fold_result_uniform(F, <<Ts[1]>> \o Rest(Ts, 3))

\* The result type of v_fold on (const F&, Ts...): no overload takes the
\* function alone; the base case returns State; the recursive overload is
\* viable only when the step is, and has the result type of the fold of the
\* step's result type and the arguments left.
RECURSIVE v_fold_result(_, _)
v_fold_result(F, Ts) ==
    IF Len(Ts) = 0 THEN NoType
    ELSE IF Len(Ts) = 1 THEN Ts[1]
    ELSE LET R == step_result(F, Ts[1], Ts[2])
         IN  IF R = NoType THEN NoType
             ELSE v_fold_result(F, <<R>> \o Rest(Ts, 3))

(***************************************************************************)
(* compress.hpp: the two adaptor bases                                     *)
(***************************************************************************)

\* The members compress_binary_adaptor_base::base declares.
compress_binary_base == {}

\* The members compress_unary_adaptor_base::base declares.
compress_unary_base == {}

\* The failure descriptor an adaptor base reports for a call that is not
\* well-formed: the operand types its failure member names, none when the
\* base declares no such member.
base_failure(base, operands) ==
    IF "failure" \in base THEN operands ELSE <<>>

\* compress_binary_adaptor_base::apply: its result type
binary_apply_result(F, State, Ts) == v_fold_result(F, <<State>> \o Ts)

\* ... and its body.
binary_apply(f, state, xs) == v_fold(f, <<state>> \o xs)

\* A self-seeding apply that seeds the fold with a value-initialised state.
unary_apply_seeded(f, xs) ==
    IF Len(xs) = 0 THEN v_fold(f, xs)
    ELSE v_fold(f, <<[t |-> xs[1].t, v |-> 0]>> \o xs)

\* A self-seeding apply that takes its last argument as the initial state.
unary_apply_last(f, xs) ==
    IF Len(xs) = 0 THEN v_fold(f, xs)
    ELSE v_fold(f, <<xs[Len(xs)]>> \o SubSeq(xs, 1, Len(xs) - 1))

\* compress_unary_adaptor_base::apply: its result type
unary_apply_result(F, Ts) == v_fold_result(F, Ts)

\* ... and its body.
unary_apply(f, xs) == v_fold(f, xs)

\* compress(f, z) and compress(f): the adaptor holds the function and the
\* pack of states, of one element or none.
compress(f, state) == [f |-> f, state |-> state]

(***************************************************************************)
(* decorate.hpp                                                            *)
(*                                                                         *)
(* The decorator operations the adaptor is instantiated with.  logger_f is *)
(* the one of the documented example; the others exercise what it does     *)
(* not: a decorator that never calls the target, one that hands the data   *)
(* on to the target, and two that cannot be called the way                 *)
(* decorator_invoke calls its decorator.                                   *)
(*   logger_f   template<F, Ts...> auto operator()(const std::string& m,   *)
(*                  F&& f, Ts&&... xs) const -> decltype(f(xs...))         *)
(*   data_f     template<T, F, Ts...> T operator()(const T& x, const F&,   *)
(*                  Ts&&...) const                       returns x         *)
(*   bind_f     template<T, F, Ts...> auto operator()(const T& x,          *)
(*                  const F& f, Ts&&... xs) const -> decltype(f(x, xs...)),*)
(*                  for arithmetic T                     returns f(x,xs...)*)
(*   mutable_f  as data_f, with an operator() that is not const            *)
(*   reset_f    as data_f, taking the data as T& (not const)               *)
(***************************************************************************)
Decorators == {"logger_f", "data_f", "bind_f", "mutable_f", "reset_f"}

\* result_of<D, Ts...> for the decorator operations; isConst: the decorator
\* is called as a const object.
DecoratorResult(D, isConst, Ts) ==
    IF Len(Ts) < 2 THEN NoType
    ELSE CASE D = "logger_f" ->
                  IF Ts[1].t = "string"
                  THEN FunctionResult(Ts[2].t, Rest(Ts, 3)) ELSE NoType
           [] D = "data_f" -> Ts[1].t
           [] D = "bind_f" ->
                  IF Ts[1].t \in {"int", "long"}
                  THEN FunctionResult(Ts[2].t, <<id_(Ts[1].t)>> \o Rest(Ts, 3))
                  ELSE NoType
           [] D = "mutable_f" -> IF isConst THEN NoType ELSE Ts[1].t
           [] D = "reset_f" -> IF Ts[1].c THEN NoType ELSE Ts[1].t
           [] OTHER -> NoType

\* What a call of the decorator operation d on as = (x, g, xs...) does: the
\* value it returns and the invocations of g it makes.
DecoratorCall(d, as) ==
    LET x == as[1]
        g == as[2]
        xs == Rest(as, 3)
    IN  CASE d.t = "logger_f" ->
                 [ret |-> FunctionCall(g, xs),
                  inner |-> <<Invocation(g, xs, FunctionCall(g, xs))>>]
          [] d.t = "bind_f" ->
                 [ret |-> FunctionCall(g, <<x>> \o xs),
                  inner |-> <<Invocation(g, <<x>> \o xs,
                                         FunctionCall(g, <<x>> \o xs))>>]
          [] OTHER -> [ret |-> x, inner |-> <<>>]

\* compressed_pair<A, B>
compressed_pair(a, b) == [first |-> a, second |-> b]

\* decorator_invoke's accessors of its base, compressed_pair<compressed_pair<D, T>, F>
get_pair(o) == o.first

base_function(o) == o.second

get_decorator(o) == get_pair(o).first

get_data(o) == get_pair(o).second

\* A return type that loses the const of the decorator and of its operands.
invoke_result_nonconst(D, T, F, Ts) ==
    DecoratorResult(D, FALSE, <<id_(T), id_(F)>> \o Ts)

\* The return type of decorator_invoke<D, T, F>::operator() on arguments of
\* the types Ts: the result of const D& on (const T&, const F&, Ts...).
invoke_result(D, T, F, Ts) ==
    DecoratorResult(D, TRUE, <<const_ref(T), const_ref(F)>> \o Ts)

\* A body that hands the decorator the target first and the data second.
invoke_call_reordered(o, xs) ==
    LET as == <<base_function(o), get_data(o)>> \o xs
        c == DecoratorCall(get_decorator(o), as)
    IN  [ret |-> c.ret,
         log |-> <<Invocation(get_decorator(o), as, c.ret)>> \o c.inner]

\* The body of decorator_invoke::operator(): one call of the decorator on the
\* data, the target and the arguments; the value it returns and every
\* invocation made, the decorator's first.
invoke_call(o, xs) ==
    LET as == <<get_data(o), base_function(o)>> \o xs
        c == DecoratorCall(get_decorator(o), as)
    IN  [ret |-> c.ret,
         log |-> <<Invocation(get_decorator(o), as, c.ret)>> \o c.inner]

\* decoration<D, T>::operator()(F f): a decorator_invoke built from a copy of
\* the decoration and the target.
decoration_apply(deco, f) == compressed_pair(deco, f)

\* decorate_adaptor_builder::apply: the decoration of f and x.
decorate_apply(f, x) == compressed_pair(f, x)

(***************************************************************************)
(* The compress adaptor as a state machine: an adaptor, constructed from a *)
(* function and at most one state, is called with argument lists.          *)
(***************************************************************************)
VARIABLES
    adaptor,    \* the compress adaptor under call
    args,       \* the arguments of the call in progress
    status,     \* "none", or the call's outcome: "returned" or "ill-formed"
    result,     \* the value returned, as a sequence of one; empty when none
    calls,      \* the invocations of the function the call made, in order
    failure     \* the operand types the failure descriptor of an ill-formed
                \* call retains

cvars == <<adaptor, args, status, result, calls, failure>>

VARIABLES
    bound,      \* the decorator operation and the data decorate was given
    decoration, \* the decoration built from them
    applied,    \* the targets the decoration was applied to, in order
    invokes,    \* the decorator_invoke objects those applications returned
    dcall,      \* the latest call of one of them: the object, the arguments,
                \* the outcome, the value returned and the invocations made
    ncalls,     \* the well-formed calls made of the objects
    ninvoked    \* the invocations of the decorator operation so far

dvars == <<bound, decoration, applied, invokes, dcall, ninvoked, ncalls>>

IntValues == {[t |-> "int", v |-> n] : n \in ExampleLo..ExampleHi}

LongValues == {[t |-> "long", v |-> ExampleLo + 1]}

FoldValues == IntValues \cup LongValues

\* The states a seeded adaptor is constructed with: one of each type.
SeedValues == {[t |-> "int", v |-> ExampleLo]} \cup LongValues

ArgLists(S, n) == UNION {[1..k -> S] : k \in 0..n}

\* No call of the adaptor is in progress.
NoCall ==
    /\ args = <<>>
    /\ status = "none"
    /\ result = <<>>
    /\ calls = <<>>
    /\ failure = <<>>

NoDecoratorCall ==
    [obj |-> 0, prev |-> 0, xs |-> <<>>, status |-> "none", ret |-> <<>>,
     log |-> <<>>]

\* The decoration of the decorator d and the data x, not yet applied.
Decorated(d, x) ==
    /\ bound = <<d, x>>
    /\ decoration = decorate_apply(d, x)
    /\ applied = <<>>
    /\ invokes = <<>>
    /\ dcall = NoDecoratorCall
    /\ ninvoked = 0
    /\ ncalls = 0

\* A compress adaptor, not yet called; the decorator plays no part.
InitCompress ==
    /\ adaptor \in {compress(Fn(F), st) :
                       F \in BinaryOps,
                       st \in {<<>>} \cup {<<z>> : z \in SeedValues}}
    /\ NoCall
    /\ Decorated(Fn("logger_f"), [t |-> "string", v |-> 0])

\* A call of the seeded adaptor, compress(f, z)(xs...).
CallBinary(xs) ==
    /\ status = "none"
    /\ Len(adaptor.state) = 1
    /\ args' = xs
    /\ UNCHANGED <<adaptor, dvars>>
    /\ LET f == adaptor.f
           z == adaptor.state[1]
           R == binary_apply_result(f.t, z.t, TypeNames(xs))
       IN  \/ /\ R # NoType
              /\ status' = "returned"
              /\ result' = <<binary_apply(f, z, xs).value>>
              /\ calls' = binary_apply(f, z, xs).calls
              /\ failure' = <<>>
           \/ /\ R = NoType
              /\ status' = "ill-formed"
              /\ result' = <<>>
              /\ calls' = <<>>
              /\ failure' = base_failure(compress_binary_base,
                                         <<id_(z.t)>> \o TypesOf(xs))

\* A call of the self-seeding adaptor, compress(f)(xs...).
CallUnary(xs) ==
    /\ status = "none"
    /\ Len(adaptor.state) = 0
    /\ args' = xs
    /\ UNCHANGED <<adaptor, dvars>>
    /\ LET f == adaptor.f
           R == unary_apply_result(f.t, TypeNames(xs))
       IN  \/ /\ R # NoType
              /\ status' = "returned"
              /\ result' = <<unary_apply(f, xs).value>>
              /\ calls' = unary_apply(f, xs).calls
              /\ failure' = <<>>
           \/ /\ R = NoType
              /\ status' = "ill-formed"
              /\ result' = <<>>
              /\ calls' = <<>>
              /\ failure' = base_failure(compress_unary_base, TypesOf(xs))

\* The end of the full expression of the call: its result is dropped and the
\* adaptor, unchanged, can be called again.
Return ==
    /\ status # "none"
    /\ args' = <<>>
    /\ status' = "none"
    /\ result' = <<>>
    /\ calls' = <<>>
    /\ failure' = <<>>
    /\ UNCHANGED <<adaptor, dvars>>

NextCompress ==
    \/ \E xs \in ArgLists(FoldValues, MaxArgs) : CallBinary(xs)
    \/ \E xs \in ArgLists(FoldValues, MaxArgs) : CallUnary(xs)
    \/ Return

(***************************************************************************)
(* The decorator as a state machine: a decoration, built by decorate(d)(x),*)
(* is applied to targets, and the objects it returns are called.           *)
(***************************************************************************)

\* Most decorator_invoke objects made of the decoration.
MaxTargets == 2

\* Most well-formed calls made of the decorator_invoke objects.
MaxCalls == 2

\* Longest argument list of one call of a decorator_invoke object.
MaxCallArgs == 2

DataValues == {[t |-> "int", v |-> 1], [t |-> "int", v |-> 2],
               [t |-> "string", v |-> 0]}

Targets == {Fn("sum_f"), Fn("neg_f")}

CallValues == {[t |-> "int", v |-> 1], [t |-> "int", v |-> 2]}

\* A decoration, not yet applied; the compress adaptor plays no part.
InitDecorate ==
    /\ \E D \in Decorators, x \in DataValues : Decorated(Fn(D), x)
    /\ adaptor = compress(Fn("max_f"), <<>>)
    /\ NoCall

\* An application that moves the data out of the decoration.
ApplyMoving(g) ==
    /\ Len(invokes) < MaxTargets
    /\ invokes' = Append(invokes, decoration_apply(decoration, g))
    /\ applied' = Append(applied, g)
    /\ decoration' = compressed_pair(decoration.first,
                                     [t |-> decoration.second.t, v |-> 0])
    /\ UNCHANGED <<bound, dcall, ninvoked, ncalls, cvars>>

\* decoration(g): the decoration applied to the target g.
Apply(g) ==
    /\ Len(invokes) < MaxTargets
    /\ invokes' = Append(invokes, decoration_apply(decoration, g))
    /\ applied' = Append(applied, g)
    /\ UNCHANGED <<bound, decoration, dcall, ninvoked, ncalls, cvars>>

\* invokes[i](xs...): a call of the i-th decorator_invoke object.
Invoke(i, xs) ==
    /\ i \in 1..Len(invokes)
    /\ LET o == invokes[i]
           R == invoke_result(get_decorator(o).t, get_data(o).t,
                              base_function(o).t, TypesOf(xs))
           c == invoke_call(o, xs)
       IN  \/ /\ R # NoType
              /\ ncalls < MaxCalls
              /\ dcall' = [obj |-> i, prev |-> dcall.obj, xs |-> xs,
                           status |-> "returned", ret |-> <<c.ret>>,
                           log |-> c.log]
              /\ ncalls' = ncalls + 1
              /\ ninvoked' = ninvoked +
                    Cardinality({k \in 1..Len(c.log) :
                                    c.log[k].fn = get_decorator(o)})
           \/ /\ R = NoType
              /\ dcall' = [obj |-> i, prev |-> dcall.obj, xs |-> xs,
                           status |-> "ill-formed", ret |-> <<>>,
                           log |-> <<>>]
              /\ UNCHANGED <<ncalls, ninvoked>>
    /\ UNCHANGED <<bound, decoration, applied, invokes, cvars>>

NextDecorate ==
    \/ \E g \in Targets : Apply(g)
    \/ \E i \in 1..MaxTargets, xs \in ArgLists(CallValues, MaxCallArgs) :
          Invoke(i, xs)

vars == <<cvars, dvars>>

SpecCompress == InitCompress /\ [][NextCompress]_vars

SpecDecorate == InitDecorate /\ [][NextDecorate]_vars

(***************************************************************************)
(* Properties of compress                                                  *)
(***************************************************************************)

Seeded == Len(adaptor.state) = 1

SelfSeeding == Len(adaptor.state) = 0

\* The state followed by the arguments: what the fold runs over.
Operands == adaptor.state \o args

\* f(...f(f(z, x1), x2)..., xn), computed from the right end of the list.
RECURSIVE LeftNested(_, _, _)
LeftNested(f, z, xs) ==
    IF Len(xs) = 0 THEN z
    ELSE FunctionCall(f, <<LeftNested(f, z, SubSeq(xs, 1, Len(xs) - 1)),
                           xs[Len(xs)]>>)

\* The type of the state after i steps of a fold of F over operands of the
\* types Ts (Ts[1] is the initial state's), NoType once a step is ill-formed.
RECURSIVE StateType(_, _, _)
StateType(F, Ts, i) ==
    IF i = 0 THEN Ts[1]
    ELSE LET S == StateType(F, Ts, i - 1)
         IN  IF S = NoType THEN NoType
             ELSE FunctionResult(F, <<id_(S), id_(Ts[i + 1])>>)

\* Step i of the fold is invocable on the state type reached and argument i.
StepInvocable(F, Ts, i) == StateType(F, Ts, i) # NoType

\* C2 (fold step law): a returned call compress(f, z)(x, xs...) has the value
\* of compress(f, f(z, x))(xs...), which is the left-nested reduction
\* f(...f(f(z, x1), x2)..., xn).
FoldStepLaw ==
    (status = "returned" /\ Seeded /\ Len(args) >= 1) =>
        LET f == adaptor.f
            z == adaptor.state[1]
        IN  /\ result[1] = binary_apply(f, FunctionCall(f, <<z, args[1]>>),
                                        Tail(args)).value
            /\ result[1] = LeftNested(f, z, args)

\* A seeded fold of a non-commutative operation over three arguments returned.
FoldStepWitness ==
    /\ status = "returned" /\ Seeded /\ Len(args) = 3
    /\ adaptor.f.t = "minus_f"
    /\ result[1].v = adaptor.state[1].v - args[1].v - args[2].v - args[3].v
    /\ result[1].v # args[1].v - adaptor.state[1].v

\* C3 (unary step law): a returned call compress(f)(x, y, xs...) has the value
\* of compress(f, f(x, y))(xs...) and of compress(f)(f(x, y), xs...); x is the
\* first operand of the first invocation of f.
UnaryStepLaw ==
    (status = "returned" /\ SelfSeeding /\ Len(args) >= 2) =>
        LET f == adaptor.f
            s == FunctionCall(f, <<args[1], args[2]>>)
        IN  /\ result[1] = binary_apply(f, s, Rest(args, 3)).value
            /\ result[1] = unary_apply(f, <<s>> \o Rest(args, 3)).value
            /\ calls[1].args = <<args[1], args[2]>>

\* A self-seeding fold of a non-commutative operation over distinct arguments.
UnaryStepWitness ==
    /\ status = "returned" /\ SelfSeeding /\ Len(args) = 3
    /\ adaptor.f.t = "minus_f"
    /\ args[1] # args[2] /\ args[2] # args[3] /\ args[1] # args[3]
    /\ result[1].v = args[1].v - args[2].v - args[3].v

\* C4 (fold identity law): compress(f, z)() returns z and invokes f not once.
FoldIdentityLaw ==
    (status = "returned" /\ Seeded /\ Len(args) = 0) =>
        /\ result = adaptor.state
        /\ calls = <<>>

\* A seeded fold over no arguments returned.
FoldIdentityWitness ==
    /\ status = "returned" /\ Seeded /\ args = <<>>
    /\ result = adaptor.state
    /\ result[1].t = "long"

\* C5 (unary identity law): compress(f)(x) returns x and invokes f not once.
UnaryIdentityLaw ==
    (status = "returned" /\ SelfSeeding /\ Len(args) = 1) =>
        /\ result = args
        /\ calls = <<>>

\* A self-seeding fold over one argument returned.
UnaryIdentityWitness ==
    /\ status = "returned" /\ SelfSeeding /\ Len(args) = 1
    /\ result = args
    /\ adaptor.f.t = "minus_f"

\* The invocations of max_f that compress(max_f())(2, 3, 4, 5) makes.
IntOf(n) == [t |-> "int", v |-> n]

MaxExampleCalls ==
    <<Invocation(Fn("max_f"), <<IntOf(ExampleLo), IntOf(ExampleLo + 1)>>,
                 IntOf(ExampleLo + 1)),
      Invocation(Fn("max_f"), <<IntOf(ExampleLo + 1), IntOf(ExampleLo + 2)>>,
                 IntOf(ExampleLo + 2)),
      Invocation(Fn("max_f"), <<IntOf(ExampleLo + 2), IntOf(ExampleHi)>>,
                 IntOf(ExampleHi))>>

MaxExample ==
    /\ adaptor = compress(Fn("max_f"), <<>>)
    /\ args = <<IntOf(ExampleLo), IntOf(ExampleLo + 1), IntOf(ExampleLo + 2),
                IntOf(ExampleHi)>>

\* C6 (call count and order): a returned fold over the state and n arguments
\* (the seed and n arguments, or the first argument and the n - 1 after it)
\* invokes the operation once per argument after the state, left to right:
\* invocation i gets the state the invocation before it returned (the initial
\* state for i = 1) and the i-th argument not yet consumed, and the fold
\* returns what the last invocation returned; compress(max_f())(2, 3, 4, 5)
\* makes max(2,3), max(3,4), max(4,5) and returns 5.
CallCountAndOrder ==
    (status = "returned") =>
        /\ Seeded => Len(calls) = Len(args)
        /\ SelfSeeding => Len(calls) = Len(args) - 1
        /\ \A i \in 1..Len(calls) :
              /\ calls[i].fn = adaptor.f
              /\ calls[i].args[1] =
                    IF i = 1 THEN Operands[1] ELSE calls[i - 1].ret
              /\ calls[i].args[2] = Operands[i + 1]
              /\ calls[i].ret = FunctionCall(adaptor.f, calls[i].args)
        /\ result[1] =
              IF calls = <<>> THEN Operands[1] ELSE calls[Len(calls)].ret
        /\ MaxExample =>
              calls = MaxExampleCalls /\ result = <<IntOf(ExampleHi)>>

\* compress(max_f())(2, 3, 4, 5) returned.
MaxExampleWitness ==
    /\ status = "returned" /\ MaxExample
    /\ Len(calls) = 3

\* The operand types of the first step of the fold that is not invocable.
RECURSIVE FailingOperands(_, _, _)
FailingOperands(F, Ts, i) ==
    IF StepInvocable(F, Ts, i) THEN FailingOperands(F, Ts, i + 1)
    ELSE <<id_(StateType(F, Ts, i - 1)), id_(Ts[i + 1])>>

\* C9 (chained non-invocability): a fold that is ill-formed because a step is
\* not invocable reports a failure descriptor that retains the operand types
\* of that step, the state type reached and the type of the next argument.
FoldFailureRetainsOperands ==
    (status = "ill-formed" /\ Len(Operands) >= 2) =>
        failure = FailingOperands(adaptor.f.t, TypeNames(Operands), 1)

\* C10 (step-wise probing): a call over a state of type S0 and arguments of
\* types T1..Tn is well-formed exactly when every step i is invocable on
\* (S(i-1), Ti), Si being the result type of step i; its value then has the
\* type Sn; an ill-formed call invokes the operation not once.
StepwiseProbing ==
    (status # "none" /\ Len(Operands) >= 1) =>
        LET F == adaptor.f.t
            Ts == TypeNames(Operands)
            n == Len(Operands) - 1
        IN  /\ status = "returned" <=>
                  \A i \in 1..n : StepInvocable(F, Ts, i)
            /\ status = "returned" => result[1].t = StateType(F, Ts, n)
            /\ status = "ill-formed" => calls = <<>>

\* A fold whose first step is invocable and changes the state type, and whose
\* second step is not invocable on the new state type, was rejected whole.
StepwiseProbingWitness ==
    /\ status = "ill-formed" /\ Len(Operands) >= 3
    /\ StepInvocable(adaptor.f.t, TypeNames(Operands), 1)
    /\ StateType(adaptor.f.t, TypeNames(Operands), 1) # Operands[1].t
    /\ ~StepInvocable(adaptor.f.t, TypeNames(Operands), 2)
    /\ calls = <<>>

(***************************************************************************)
(* Properties of decorate                                                  *)
(***************************************************************************)

\* The arguments the latest call is to hand the decorator: the data given to
\* decorate(d), the target given to the application that made the object
\* called, and the arguments of the call, in that order.
Expected == <<bound[2], applied[dcall.obj]>> \o dcall.xs

\* The places of the log of the latest call that are invocations of d.
DecoratorEntries == {k \in 1..Len(dcall.log) : dcall.log[k].fn = bound[1]}

\* C1 (decorator application law): a returned call decorate(d)(x)(g)(xs...)
\* invoked d once, on (x, g, xs...) in that order, and returned what that
\* invocation returned; g was invoked only by d; and every returned call,
\* a repeated one too, invoked d, so d was invoked as often as calls returned.
DecoratorApplicationLaw ==
    /\ ninvoked = ncalls
    /\ (dcall.status = "returned") =>
          /\ DecoratorEntries = {1}
          /\ dcall.log[1].args = Expected
          /\ dcall.log[1].ret = DecoratorCall(bound[1], Expected).ret
          /\ dcall.ret = <<DecoratorCall(bound[1], Expected).ret>>
          /\ Rest(dcall.log, 2) = DecoratorCall(bound[1], Expected).inner

\* The same object was called twice, with arguments, and the decorator was
\* invoked twice.
DecoratorApplicationWitness ==
    /\ dcall.status = "returned"
    /\ dcall.prev = dcall.obj
    /\ Len(dcall.xs) = 2
    /\ ncalls = 2 /\ ninvoked = 2
    /\ dcall.log[1].args = <<bound[2], applied[dcall.obj]>> \o dcall.xs

\* C7 (capability propagation): a call of a decorator_invoke<D, T, F> object
\* on arguments of the types Ts is well-formed exactly when const D& is
\* invocable with (const T&, const F&, Ts...), and then returns a value of
\* that invocation's result type; whether F is invocable with Ts decides
\* nothing: data_f is invocable where the target is not, and logger_f on an
\* int is not invocable where the target is.
CapabilityPropagation ==
    (dcall.status # "none") =>
        LET D == bound[1].t
            T == bound[2].t
            F == applied[dcall.obj].t
            Ts == TypesOf(dcall.xs)
            R == DecoratorResult(D, TRUE, <<const_ref(T), const_ref(F)>> \o Ts)
        IN  /\ dcall.status = "returned" <=> R # NoType
            /\ dcall.status = "returned" => dcall.ret[1].t = R
            /\ (D = "data_f" /\ FunctionResult(F, Ts) = NoType)
                  => dcall.status = "returned"
            /\ (D = "logger_f" /\ T = "int" /\ FunctionResult(F, Ts) # NoType)
                  => dcall.status = "ill-formed"

\* A decorator that never calls its target was called with arguments the
\* target is not invocable with, and returned.
CapabilityNotRequiredWitness ==
    /\ dcall.status = "returned"
    /\ bound[1].t = "data_f"
    /\ FunctionResult(applied[dcall.obj].t, TypesOf(dcall.xs)) = NoType

\* The target is invocable with the arguments and the decorator is not.
CapabilityNotSufficientReached ==
    /\ dcall.status = "ill-formed"
    /\ bound[1].t = "logger_f"
    /\ FunctionResult(applied[dcall.obj].t, TypesOf(dcall.xs)) # NoType

\* C8 (decoration reuse): the decoration stays what decorate(d)(x) built,
\* whatever it is applied to and whatever is called; each object holds the
\* decorator, the data and the target of its own application; and a returned
\* call of object i invoked the decorator on (data, gi, xs...).
DecorationReuse ==
    /\ decoration = decorate_apply(bound[1], bound[2])
    /\ Len(invokes) = Len(applied)
    /\ \A i \in 1..Len(invokes) :
          /\ get_decorator(invokes[i]) = bound[1]
          /\ get_data(invokes[i]) = bound[2]
          /\ base_function(invokes[i]) = applied[i]
    /\ (dcall.status = "returned") =>
          dcall.log[1] = Invocation(bound[1], Expected, dcall.ret[1])

\* One decoration was applied to two distinct targets; the second object was
\* called, and then the first.
DecorationReuseWitness ==
    /\ Len(invokes) = 2
    /\ applied[1] # applied[2]
    /\ dcall.status = "returned"
    /\ dcall.obj = 1 /\ dcall.prev = 2
    /\ ncalls = 2

====
